---- MODULE Spec2Model ----
(***************************************************************************)
(* The scene registry of byd-rs (src/src/scene.rs) as a state machine:     *)
(* Scene::add / remove / render, the texture queue, the shared uniform     *)
(* buffers and their dynamic offsets, and the mount / unmount / render     *)
(* hooks of the scene objects (DebugNormals, Mesh, trait defaults).        *)
(***************************************************************************)
EXTENDS Integers, Sequences, FiniteSets, TLC

(***************************************************************************)
(* Bounds of the model.                                                    *)
(***************************************************************************)
\* Scene::add calls made on the scene under study.
MaxAdds == 2
\* Geometry values the application holds.
MaxGeometries == 2
\* Frames the event loop attempts.
MaxFrames == 3
\* Resize events the window receives.
MaxResizes == 1
\* load_texture_from_bytes calls made by the application (the placeholder
\* queued by Scene::new is not counted).
MaxLoads == 1
\* Vertices in one set_vertices call.
MaxVertices == 2

(***************************************************************************)
(* Program constants.                                                      *)
(***************************************************************************)
\* scene.rs:19
MAX_ACTORS == 2048
\* scene.rs:22, the value NEXT_ID is constructed with
FIRST_ID == 1
\* wgpu::DynamicOffset is u32 (scene.rs:227 `as wgpu::DynamicOffset`)
DynamicOffsetBits == 32
\* log2 of device.limits().min_uniform_buffer_offset_alignment (scene.rs:146).
\* The limit is a power of two; 256 is the value wgpu reports by default.
AlignmentShift == 8
uniform_alignment == 2 ^ AlignmentShift
\* size_of::<ActorUniform>(): a Vector4<f32> and a Matrix4<f32>
\* (pipelines/line.rs:18-21)
ActorUniformSize == 80

\* Number of distinct slots a 32-bit dynamic offset can address.
OffsetSlots == 2 ^ (DynamicOffsetBits - AlignmentShift)

\* Values NEXT_ID is brought to by add calls on other Scene instances of the
\* process: the last slot of the actor buffer, and one past the first id
\* whose offset no longer fits 32 bits.
IdMarks == {MAX_ACTORS - 1, OffsetSlots + 1}

Transforms == {"identity", "moved"}
Images == {"pixel", "image"}
\* texture_id values a TextureMaterial is constructed with
TextureIDs == {0, 1}

VARIABLES
    NEXT_ID,             \* the process-wide id counter
    objects,             \* Scene.objects: ObjectID -> object
    added,               \* Scene.added
    removed,             \* Scene.removed
    uniforms,            \* Scene.uniforms is Some
    debug_uniforms,      \* Scene.debug_uniforms is Some
    texture_bind_groups, \* SceneUniforms.texture_bind_groups (the image of each)
    texture_queue,       \* Scene.texture_queue
    loads,               \* number of application load_texture_from_bytes calls
    panicked,            \* the process has panicked
    op,                  \* the most recent operation
    arg,                 \* the id it was called with (remove) or returned (add)
    calls,               \* hook and GPU calls made by the most recent operation
    returned,            \* ids returned by add on this scene, in call order
    issued,              \* the greatest id returned by any add of the process
    mounts,              \* id -> number of mount calls received
    unmounts,            \* id -> number of unmount calls received
    resolved,            \* ids that were in `removed` when a pass drained it
    removedFresh,        \* ids remove was called with before any mount call
    again,               \* the most recent operation was a remove of an id that
                         \* was in `removed` already
    window,              \* the window's event loop and its presentation surface
    geometry,            \* the Geometry values of the application
    program,             \* a SimpleProgram of the application
    renderer,            \* the Renderer of the application
    normals              \* a DebugNormals the application drives itself

vars == <<NEXT_ID, objects, added, removed, uniforms, debug_uniforms,
          texture_bind_groups, texture_queue, loads, panicked, op, arg, calls,
          returned, issued, mounts, unmounts, resolved, removedFresh, again,
          window, geometry, program, renderer, normals>>

sceneVars == <<objects, added, removed>>
textureVars == <<uniforms, debug_uniforms, texture_bind_groups, texture_queue, loads>>
historyVars == <<mounts, unmounts, resolved>>
\* a Scene, the counter it shares and the record of its calls
registryVars == <<NEXT_ID, objects, added, removed, uniforms, debug_uniforms,
                  texture_bind_groups, texture_queue, loads, panicked, returned,
                  issued, mounts, unmounts, resolved, removedFresh, again>>
\* what no method of Scene touches
outsideVars == <<window, geometry, program, renderer, normals>>

(***************************************************************************)
(* Helpers.                                                                *)
(***************************************************************************)
Range(s) == {s[i] : i \in 1..Len(s)}

\* The orders in which a HashSet / HashMap may yield the ids of S.
Orders(S) ==
    {s \in [1..Cardinality(S) -> S] : \A i, j \in 1..Cardinality(S) : i /= j => s[i] /= s[j]}

Event(name, id, buf, off, model, color) ==
    [op |-> name, id |-> id, buf |-> buf, off |-> off, model |-> model, color |-> color]

\* (index * uniform_alignment) as wgpu::DynamicOffset: the product reduced
\* modulo 2^32.  uniform_alignment is 2^AlignmentShift, so the reduced product
\* is (index mod 2^(32 - AlignmentShift)) * uniform_alignment.
DynamicOffset(index) == (index % OffsetSlots) * uniform_alignment

\* The concatenation of f[s[1]], ..., f[s[Len(s)]].
RECURSIVE Flatten(_, _)
Flatten(s, f) == IF s = <<>> THEN <<>> ELSE f[Head(s)] \o Flatten(Tail(s), f)

(***************************************************************************)
(* Scene objects.  An object is a record: its concrete type, the material  *)
(* its material() returns ("None" for Option::None), its transform, and    *)
(* the state of its vertex buffer.                                         *)
(***************************************************************************)
\* DebugNormals::new
NewDebugNormals(t) ==
    [type |-> "DebugNormals", material |-> "Line", texture_id |-> 0,
     transform |-> t, buffer |-> FALSE, dirty |-> TRUE, uploaded |-> FALSE]

\* Mesh::new; Mesh keeps the trait's material(), which returns None
NewMesh(t) ==
    [type |-> "Mesh", material |-> "None", texture_id |-> 0,
     transform |-> t, buffer |-> FALSE, dirty |-> FALSE, uploaded |-> FALSE]

\* An object that keeps the trait's render / mount / unmount and returns
\* material m (a TextureMaterial carries texture_id tid).
NewObject(m, tid, t) ==
    [type |-> "Object", material |-> m, texture_id |-> tid,
     transform |-> t, buffer |-> FALSE, dirty |-> FALSE, uploaded |-> FALSE]

\* What the application can hand to Scene::add.
NewObjects ==
    {NewDebugNormals(t) : t \in Transforms}
    \cup {NewMesh(t) : t \in Transforms}
    \cup {NewObject(m, 0, t) : m \in {"Basic", "Custom"}, t \in Transforms}
    \cup {NewObject("Textured", tid, t) : tid \in TextureIDs, t \in Transforms}

\* DebugNormals::free
DebugNormalsFree(o) == [o EXCEPT !.buffer = FALSE]
DebugNormalsFreeCalls(id, o) ==
    IF o.buffer THEN <<Event("destroy_buffer", id, "vertex", 0, "", "")>> ELSE <<>>

\* DebugNormals::allocate
DebugNormalsAllocate(o) == [DebugNormalsFree(o) EXCEPT !.buffer = TRUE]
DebugNormalsAllocateCalls(id, o) ==
    DebugNormalsFreeCalls(id, o) \o <<Event("create_buffer", id, "vertex", 0, "", "")>>

\* Mesh::upload
MeshUpload(o) == [o EXCEPT !.uploaded = TRUE, !.buffer = TRUE]
MeshUploadCalls(id, o) == <<Event("create_buffer", id, "vertex", 0, "", "")>>

\* Mesh::free
MeshFree(o) == o

\* SceneObject::mount of each type
Mount(o) ==
    IF o.type = "DebugNormals" THEN [DebugNormalsAllocate(o) EXCEPT !.dirty = FALSE]
    ELSE o
MountCalls(id, o) ==
    <<Event("mount", id, "", 0, "", "")>>
    \o (IF o.type = "DebugNormals" THEN DebugNormalsAllocateCalls(id, o) ELSE <<>>)

\* SceneObject::unmount of each type
Unmount(o) ==
    IF o.type = "DebugNormals" THEN DebugNormalsFree(o)
    ELSE IF o.type = "Mesh" THEN MeshFree(o)
    ELSE o
UnmountCalls(id, o) ==
    <<Event("unmount", id, "", 0, "", "")>>
    \o (IF o.type = "DebugNormals" THEN DebugNormalsFreeCalls(id, o) ELSE <<>>)

\* SceneObject::render of each type (Mesh::draw for a Mesh)
RenderObject(o) ==
    IF o.type = "DebugNormals"
    THEN (IF o.dirty THEN [DebugNormalsAllocate(o) EXCEPT !.dirty = FALSE] ELSE o)
    ELSE IF o.type = "Mesh"
    THEN (IF ~o.uploaded THEN MeshUpload(o) ELSE o)
    ELSE o
RenderObjectCalls(id, o) ==
    <<Event("render", id, "", 0, "", "")>>
    \o (IF o.type = "DebugNormals" /\ o.dirty THEN DebugNormalsAllocateCalls(id, o)
        ELSE IF o.type = "Mesh" /\ ~o.uploaded THEN MeshUploadCalls(id, o)
        ELSE <<>>)
    \o (IF RenderObject(o).buffer
        THEN <<Event("draw", id, "vertex", 0, "", "")>> ELSE <<>>)

(***************************************************************************)
(* SceneUniforms / DebugUniforms: the calls of the per-object binder.      *)
(***************************************************************************)
\* SceneUniforms::set_actor, DebugUniforms::set_actor: queue.write_buffer to
\* the actor buffer `buf` at the dynamic offset of `index`
SetActor(buf, id, index, color, model) ==
    Event("set_actor", id, buf, DynamicOffset(index), model, color)

\* A bind_actor that always binds the first slot of the buffer
BindActorFirstSlot(buf, id, index) == Event("bind_actor", id, buf, 0, "", "")

\* SceneUniforms::bind_actor, DebugUniforms::bind_actor
BindActor(buf, id, index) ==
    Event("bind_actor", id, buf, DynamicOffset(index), "", "")

\* SceneUniforms::bind_texture: the offset into the enabled buffer; indexing
\* texture_bind_groups[index] panics when index is out of range
BindTextureOffset(index) == (IF index = 0 THEN 0 ELSE 1) * uniform_alignment
BindTexturePanics(index, groups) == index >= Len(groups)
BindTexture(id, index, groups) ==
    IF BindTexturePanics(index, groups)
    THEN Event("panic", id, "texture", index, "", "")
    ELSE Event("bind_texture", id, groups[index + 1], BindTextureOffset(index), "", "")

\* SceneUniforms::set_camera, DebugUniforms::set_camera
SetCamera(buf) == Event("set_camera", 0, buf, 0, "", "")

\* The index Scene::render addresses the actor buffer with: `*id as _`
ActorIndex(id) == id

\* A dispatch on the material as the object returns it, without a default
DrawMaterialAsIs(o) == o.material

\* The material the draw loop dispatches on:
\* object.material().unwrap_or(&default_material)
DrawMaterial(o) == IF o.material = "None" THEN "Basic" ELSE o.material

\* The draw loop's body for one object panics (in bind_texture)
DrawPanics(o, groups) ==
    /\ DrawMaterial(o) = "Textured"
    /\ BindTexturePanics(o.texture_id, groups)

\* The object's render is reached by the draw loop's body
DrawRenders(o, groups) ==
    /\ DrawMaterial(o) \in {"Basic", "Textured", "Line"}
    /\ ~DrawPanics(o, groups)

\* The calls of the draw loop's body for one object
DrawCalls(id, o, groups) ==
    IF DrawMaterial(o) = "Basic"
    THEN <<SetActor("scene", id, ActorIndex(id),
                    IF o.material = "None" THEN "default" ELSE "material", o.transform),
           BindActor("scene", id, ActorIndex(id)),
           BindTexture(id, 0, groups)>>
         \o RenderObjectCalls(id, o)
    ELSE IF DrawMaterial(o) = "Textured"
    THEN <<SetActor("scene", id, ActorIndex(id), "black", o.transform),
           BindActor("scene", id, ActorIndex(id)),
           BindTexture(id, o.texture_id, groups)>>
         \o (IF DrawPanics(o, groups) THEN <<>> ELSE RenderObjectCalls(id, o))
    ELSE IF DrawMaterial(o) = "Line"
    THEN <<SetActor("debug", id, ActorIndex(id), "magenta", o.transform),
           BindActor("debug", id, ActorIndex(id))>>
         \o RenderObjectCalls(id, o)
    ELSE <<>>

\* Position in `order` of the first object whose draw panics (Len + 1: none)
FirstPanic(order, objs, groups) ==
    LET P == {i \in 1..Len(order) : DrawPanics(objs[order[i]], groups)}
    IN  IF P = {} THEN Len(order) + 1 ELSE CHOOSE i \in P : \A j \in P : i <= j

\* Window::new: the event loop polls, the swap chain was created at the
\* window's size; no frame was attempted and no resize event received
NewWindow ==
    [control_flow |-> "Poll", size |-> "1920x1080", swap_chain |-> "1920x1080",
     swap_chains |-> 1, frames |-> 0, presented |-> 0, logged |-> 0,
     resizes |-> 0, outcome |-> "none", path |-> "none"]

\* SimpleProgram::new: no ProgramState yet.  In a ProgramState,
\* enabled_buffer maps the offset of each slot to the value written there,
\* texture_bind_groups is the set of ids that have a bind group, and `bound`
\* is the last set_bind_group(1, ..) of bind_texture (at most one record of
\* the texture id and the dynamic offset).
NewProgram ==
    [state |-> FALSE, enabled_buffer |-> <<>>, texture_bind_groups |-> {},
     bound |-> <<>>, panicked |-> FALSE]

\* DebugNormals::new with its fields in full: `lines` as built by
\* set_vertices, vertex_buffer (the Option as a sequence of at most one
\* buffer, a buffer being the contents it was created with), dirty, and
\* `edited`: set_vertices was called since the last render call.
NormalsNew == [lines |-> <<>>, vertex_buffer |-> <<>>, dirty |-> TRUE, edited |-> FALSE]

\* Renderer::new: no surface.  `steps` are the steps the most recent
\* Renderer::render call has performed, in order, and `result` is what the
\* call returned ("panic" when it unwound instead of returning).
NewRenderer == [surface |-> FALSE, steps |-> <<>>, result |-> "none"]

(***************************************************************************)
(* The state after Scene::new.                                             *)
(***************************************************************************)
Init ==
    /\ NEXT_ID = FIRST_ID
    /\ objects = [id \in {} |-> {}]
    /\ added = {}
    /\ removed = {}
    /\ uniforms = FALSE
    /\ debug_uniforms = FALSE
    /\ texture_bind_groups = <<>>
    /\ texture_queue = <<"pixel">>
    /\ loads = 0
    /\ panicked = FALSE
    /\ op = "new"
    /\ arg = 0
    /\ calls = <<>>
    /\ returned = <<>>
    /\ issued = 0
    /\ mounts = [id \in {} |-> 0]
    /\ unmounts = [id \in {} |-> 0]
    /\ resolved = {}
    /\ removedFresh = {}
    /\ again = FALSE
    /\ window = NewWindow
    /\ geometry = <<>>
    /\ program = NewProgram
    /\ renderer = NewRenderer
    /\ normals = NormalsNew

(***************************************************************************)
(* Operations.                                                             *)
(***************************************************************************)
\* A counter that is read but not advanced
FetchAddStuck(counter) == counter

\* AtomicUsize::fetch_add(1): the counter after the call (the call returns
\* the counter before it)
FetchAdd(counter) == counter + 1

\* An add that mounts the object at once instead of flagging it
AddMounting(o) ==
    /\ ~panicked
    /\ LET id == NEXT_ID IN
        /\ NEXT_ID' = FetchAdd(NEXT_ID)
        /\ objects' = (id :> Mount(o)) @@ objects
        /\ returned' = Append(returned, id)
        /\ issued' = id
        /\ mounts' = mounts @@ (id :> 1)
        /\ unmounts' = unmounts @@ (id :> 0)
        /\ arg' = id
        /\ calls' = MountCalls(id, o)
    /\ op' = "add"
    /\ again' = FALSE
    /\ UNCHANGED <<added, removed, resolved, removedFresh, panicked>>
    /\ UNCHANGED outsideVars
    /\ UNCHANGED textureVars

\* Scene::add
Add(o) ==
    /\ ~panicked
    /\ LET id == NEXT_ID IN
        /\ NEXT_ID' = FetchAdd(NEXT_ID)
        /\ objects' = (id :> o) @@ objects
        /\ added' = added \cup {id}
        /\ returned' = Append(returned, id)
        /\ issued' = id
        /\ mounts' = mounts @@ (id :> 0)
        /\ unmounts' = unmounts @@ (id :> 0)
        /\ arg' = id
    /\ op' = "add"
    /\ again' = FALSE
    /\ UNCHANGED outsideVars
    /\ calls' = <<>>
    /\ UNCHANGED <<removed, resolved, removedFresh, panicked>>
    /\ UNCHANGED textureVars

\* Scene::add called on other Scene instances of the process until the shared
\* counter reaches m
AddElsewhere(m) ==
    /\ ~panicked
    /\ m > NEXT_ID
    /\ NEXT_ID' = m
    /\ issued' = m - 1
    /\ op' = "add elsewhere"
    /\ again' = FALSE
    /\ UNCHANGED outsideVars
    /\ arg' = m - 1
    /\ calls' = <<>>
    /\ UNCHANGED <<returned, removedFresh, panicked>>
    /\ UNCHANGED sceneVars
    /\ UNCHANGED textureVars
    /\ UNCHANGED historyVars

\* A remove that takes the object out of the map at once
RemoveEager(id) ==
    /\ ~panicked
    /\ objects' = [i \in DOMAIN objects \ {id} |-> objects[i]]
    /\ added' = added \ {id}
    /\ op' = "remove"
    /\ again' = FALSE
    /\ UNCHANGED outsideVars
    /\ arg' = id
    /\ calls' = <<>>
    /\ UNCHANGED <<NEXT_ID, removed, removedFresh, returned, issued, panicked>>
    /\ UNCHANGED textureVars
    /\ UNCHANGED historyVars

\* A remove that flags the id without looking it up in the map
RemoveUnchecked(id) ==
    /\ ~panicked
    /\ removed' = removed \cup {id}
    /\ op' = "remove"
    /\ again' = (id \in removed)
    /\ arg' = id
    /\ calls' = <<>>
    /\ UNCHANGED <<NEXT_ID, objects, added, returned, issued, panicked, removedFresh>>
    /\ UNCHANGED outsideVars
    /\ UNCHANGED textureVars
    /\ UNCHANGED historyVars

\* Scene::remove
Remove(id) ==
    /\ ~panicked
    /\ removed' = IF id \in DOMAIN objects THEN removed \cup {id} ELSE removed
    /\ removedFresh' = IF id \in DOMAIN objects /\ mounts[id] = 0
                       THEN removedFresh \cup {id} ELSE removedFresh
    /\ op' = "remove"
    /\ again' = (id \in removed)
    /\ UNCHANGED outsideVars
    /\ arg' = id
    /\ calls' = <<>>
    /\ UNCHANGED <<NEXT_ID, objects, added, returned, issued, panicked>>
    /\ UNCHANGED textureVars
    /\ UNCHANGED historyVars

\* Scene::get, Scene::get_mut on the object map objs: the Option as a sequence
\* of at most one object
Get(objs, id) == IF id \in DOMAIN objs THEN <<objs[id]>> ELSE <<>>
GetMut(objs, id) == Get(objs, id)

\* Scene::load_texture_from_bytes (the bytes decode to image img)
LoadTexture(img) ==
    /\ ~panicked
    /\ loads < MaxLoads
    /\ texture_queue' = Append(texture_queue, img)
    /\ loads' = loads + 1
    /\ op' = "load_texture_from_bytes"
    /\ again' = FALSE
    /\ UNCHANGED outsideVars
    /\ arg' = 0
    /\ calls' = <<>>
    /\ UNCHANGED <<NEXT_ID, returned, issued, removedFresh, panicked, uniforms,
                   debug_uniforms, texture_bind_groups>>
    /\ UNCHANGED sceneVars
    /\ UNCHANGED historyVars

\* Scene::process_texture_queue
ProcessTextureQueue ==
    /\ ~panicked
    /\ IF uniforms
       THEN /\ texture_bind_groups' = texture_bind_groups \o texture_queue
            /\ texture_queue' = <<>>
            /\ calls' = [i \in 1..Len(texture_queue) |->
                            Event("add_texture", Len(texture_bind_groups) + i,
                                  texture_queue[i], 0, "", "")]
       ELSE /\ UNCHANGED <<texture_bind_groups, texture_queue>>
            /\ calls' = <<>>
    /\ op' = "process_texture_queue"
    /\ again' = FALSE
    /\ UNCHANGED outsideVars
    /\ arg' = 0
    /\ UNCHANGED <<NEXT_ID, returned, issued, removedFresh, panicked, uniforms,
                   debug_uniforms, loads>>
    /\ UNCHANGED sceneVars
    /\ UNCHANGED historyVars

\* Number of calls `o` that `cs` makes on object id
CountCalls(cs, o, id) == Cardinality({i \in 1..Len(cs) : cs[i].op = o /\ cs[i].id = id})

\* Scene::render, "Add flagged objects": the calls of the loop that drains
\* `added` in the order `order`
AddFlaggedCalls(order, objs) ==
    Flatten(order, [id \in Range(order) |->
        IF id \in DOMAIN objs THEN MountCalls(id, objs[id]) ELSE <<>>])
\* ... and the object map after it
AddFlagged(addedSet, objs) ==
    [id \in DOMAIN objs |-> IF id \in addedSet THEN Mount(objs[id]) ELSE objs[id]]

\* A removal loop that drops the objects without calling their unmount
RemoveFlaggedCallsNone(order, objs) == <<>>

\* A removal loop that leaves the objects in the map
RemoveFlaggedKeeps(removedSet, objs) == objs

\* The end of the `if let Some(mut object) = self.objects.remove(&id)` block:
\* the object is dropped, with the vertex buffer it still holds
DropCalls(id, o) == <<Event("drop", id, IF o.buffer THEN "vertex" ELSE "", 0, "", "")>>

\* Scene::render, "Remove flagged objects": the calls of the loop that drains
\* `removed` in the order `order`
RemoveFlaggedCalls(order, objs) ==
    Flatten(order, [id \in Range(order) |->
        IF id \in DOMAIN objs
        THEN UnmountCalls(id, objs[id]) \o DropCalls(id, Unmount(objs[id]))
        ELSE <<>>])
\* ... and the object map after it
RemoveFlagged(removedSet, objs) ==
    [id \in DOMAIN objs \ removedSet |-> objs[id]]

\* Scene::render, the draw loop over the object map in the order `order`: the
\* objects whose loop body is entered (the loop ends at a panic)
Reached(order, objs, groups) ==
    LET k == FirstPanic(order, objs, groups)
    IN  SubSeq(order, 1, IF k <= Len(order) THEN k ELSE Len(order))
\* ... its calls
DrawLoopCalls(order, objs, groups) ==
    Flatten(Reached(order, objs, groups),
            [id \in DOMAIN objs |-> DrawCalls(id, objs[id], groups)])
\* ... and the object map after it
DrawLoop(order, objs, groups) ==
    [id \in DOMAIN objs |->
        IF id \in Range(Reached(order, objs, groups)) /\ DrawRenders(objs[id], groups)
        THEN RenderObject(objs[id]) ELSE objs[id]]

\* A pass that removes the flagged objects after the draw loop
PassCallsLateRemoval(build, mountCalls, unmountCalls, drawCalls) ==
    build \o mountCalls
    \o <<SetCamera("scene"), SetCamera("debug")>> \o drawCalls \o unmountCalls

\* A pass that writes the camera before it resolves the pending sets
PassCallsCameraFirst(build, mountCalls, unmountCalls, drawCalls) ==
    build \o <<SetCamera("scene"), SetCamera("debug")>>
    \o mountCalls \o unmountCalls \o drawCalls

\* Scene::render: the calls of a pass, in program order
PassCalls(build, mountCalls, unmountCalls, drawCalls) ==
    build \o mountCalls \o unmountCalls
    \o <<SetCamera("scene"), SetCamera("debug")>> \o drawCalls

\* A render that never returns early
ReturnsEarlyNever(groups) == FALSE

\* Scene::render returns at "Default image bind group hasn't been created yet."
ReturnsEarly(groups) == Len(groups) = 0

\* An Option filled anew on every call
InsertAlways(present, constructor, buf) ==
    <<Event(constructor, 0, buf, 0, "", "")>>

\* Option::get_or_insert_with: the constructor is called only when the Option
\* is None
GetOrInsertWith(present, constructor, buf) ==
    IF present THEN <<>> ELSE <<Event(constructor, 0, buf, 0, "", "")>>

\* Scene::render
RenderScene ==
    /\ ~panicked
    /\ uniforms' = TRUE
    /\ debug_uniforms' = TRUE
    /\ op' = "render"
    /\ again' = FALSE
    /\ arg' = 0
    /\ LET \* get_or_insert_with: built only when absent
           build == GetOrInsertWith(uniforms, "SceneUniforms::new", "scene")
                    \o GetOrInsertWith(debug_uniforms, "DebugUniforms::new", "debug")
           \* a SceneUniforms just built has no texture bind group
           groups == IF uniforms THEN texture_bind_groups ELSE <<>>
       IN  IF ReturnsEarly(groups)
           THEN /\ calls' = build
                /\ UNCHANGED <<objects, added, removed, panicked>>
                /\ UNCHANGED historyVars
           ELSE \E addOrder \in Orders(added), remOrder \in Orders(removed) :
                LET mounted == AddFlagged(added, objects)
                    live == RemoveFlagged(removed, mounted)
                IN  \E drawOrder \in Orders(DOMAIN live) :
                    /\ objects' = DrawLoop(drawOrder, live, groups)
                    /\ added' = {}
                    /\ removed' = {}
                    /\ calls' = PassCalls(build,
                                          AddFlaggedCalls(addOrder, objects),
                                          RemoveFlaggedCalls(remOrder, mounted),
                                          DrawLoopCalls(drawOrder, live, groups))
                    /\ panicked' = (FirstPanic(drawOrder, live, groups) <= Len(drawOrder))
                    /\ mounts' = [id \in DOMAIN mounts |->
                                     mounts[id] + CountCalls(calls', "mount", id)]
                    /\ unmounts' = [id \in DOMAIN unmounts |->
                                     unmounts[id] + CountCalls(calls', "unmount", id)]
                    /\ resolved' = resolved \cup removed
    /\ UNCHANGED <<NEXT_ID, returned, issued, removedFresh, texture_bind_groups,
                   texture_queue, loads>>

\* Scene::render called on its own
Render == RenderScene /\ UNCHANGED outsideVars

\* The concrete types a handler can ask for
ObjectTypes == {"DebugNormals", "Mesh", "Object"}

\* self.get(id).and_then(|obj| obj.downcast_ref::<T>()): the Option as a
\* sequence of at most one object
Downcast(opt, T) == IF opt /= <<>> /\ opt[1].type = T THEN opt ELSE <<>>

\* The handlers the applications pass to with_object_mut:
\* DebugNormals::set_vertices, and the assignment of a Mesh's transform
Handler(T, o) ==
    IF T = "DebugNormals" THEN [o EXCEPT !.dirty = TRUE]
    ELSE IF T = "Mesh" THEN [o EXCEPT !.transform = "moved"]
    ELSE o

\* Scene::with_object::<T>(id, handler); the handler reads the object
WithObject(T, id) ==
    /\ ~panicked
    /\ calls' = IF Downcast(Get(objects, id), T) /= <<>>
                THEN <<Event("handler", id, T, 0, "", "")>> ELSE <<>>
    /\ op' = "with_object"
    /\ again' = FALSE
    /\ arg' = id
    /\ UNCHANGED <<NEXT_ID, returned, issued, removedFresh, panicked>>
    /\ UNCHANGED sceneVars
    /\ UNCHANGED outsideVars
    /\ UNCHANGED textureVars
    /\ UNCHANGED historyVars

\* A with_object_mut that hands any stored object to the handler
WithObjectMutAnyType(T, id) ==
    /\ ~panicked
    /\ objects' = IF GetMut(objects, id) /= <<>>
                  THEN [objects EXCEPT ![id] = Handler(T, @)] ELSE objects
    /\ calls' = IF GetMut(objects, id) /= <<>>
                THEN <<Event("handler", id, T, 0, "", "")>> ELSE <<>>
    /\ op' = "with_object_mut"
    /\ again' = FALSE
    /\ arg' = id
    /\ UNCHANGED <<NEXT_ID, added, removed, returned, issued, removedFresh, panicked>>
    /\ UNCHANGED outsideVars
    /\ UNCHANGED textureVars
    /\ UNCHANGED historyVars

\* Scene::with_object_mut::<T>(id, handler)
WithObjectMut(T, id) ==
    /\ ~panicked
    /\ objects' = IF Downcast(GetMut(objects, id), T) /= <<>>
                  THEN [objects EXCEPT ![id] = Handler(T, @)] ELSE objects
    /\ calls' = IF Downcast(GetMut(objects, id), T) /= <<>>
                THEN <<Event("handler", id, T, 0, "", "")>> ELSE <<>>
    /\ op' = "with_object_mut"
    /\ again' = FALSE
    /\ arg' = id
    /\ UNCHANGED <<NEXT_ID, added, removed, returned, issued, removedFresh, panicked>>
    /\ UNCHANGED outsideVars
    /\ UNCHANGED textureVars
    /\ UNCHANGED historyVars

\* Scene::with_object_mut::<DebugNormals>(id, |o| o.set_vertices(..))
SetVertices(id) == WithObjectMut("DebugNormals", id)

(***************************************************************************)
(* The event loop and the presentation of a frame.                         *)
(***************************************************************************)
\* What acquiring the frame to present yields: Ok, or one of the errors of
\* wgpu::SwapChainError
Outcomes == {"Ok", "Lost", "OutOfMemory", "Outdated", "Timeout"}
Sizes == {"1920x1080", "800x600"}

\* State::resize: the swap chain is created anew at new_size
StateResize(w, new_size) ==
    [w EXCEPT !.size = new_size, !.swap_chain = new_size,
              !.swap_chains = @ + 1]

\* State::render: get_current_frame()? returns the error, otherwise the
\* application draws and the frame is submitted
StateRender(w, outcome) ==
    [w EXCEPT !.frames = @ + 1, !.outcome = outcome, !.path = "window",
              !.presented = IF outcome = "Ok" THEN @ + 1 ELSE @]

\* Window::run, WinitEvent::RedrawRequested
RedrawRequested(outcome) ==
    /\ window.control_flow /= "Exit"
    /\ window.path \in {"none", "window"}
    /\ window.frames < MaxFrames
    /\ LET w == StateRender(window, outcome) IN
        window' = IF outcome = "Ok" THEN w
                  ELSE IF outcome = "Lost" THEN StateResize(w, w.size)
                  ELSE IF outcome = "OutOfMemory" THEN [w EXCEPT !.control_flow = "Exit"]
                  ELSE [w EXCEPT !.logged = @ + 1]
    /\ op' = "redraw"
    /\ arg' = 0
    /\ calls' = <<>>
    /\ UNCHANGED registryVars
    /\ UNCHANGED <<geometry, program, renderer, normals>>

\* Window::run, WindowEvent::Resized(size)
WindowResized(size) ==
    /\ window.control_flow /= "Exit"
    /\ window.path \in {"none", "window"}
    /\ window.resizes < MaxResizes
    /\ window' = [StateResize(window, size) EXCEPT !.resizes = @ + 1, !.path = "window"]
    /\ op' = "resized"
    /\ arg' = 0
    /\ calls' = <<>>
    /\ UNCHANGED registryVars
    /\ UNCHANGED <<geometry, program, renderer, normals>>

\* Window::run, WindowEvent::CloseRequested
CloseRequested ==
    /\ window.control_flow /= "Exit"
    /\ window.path \in {"none", "window"}
    /\ window' = [window EXCEPT !.control_flow = "Exit", !.path = "window"]
    /\ op' = "close"
    /\ arg' = 0
    /\ calls' = <<>>
    /\ UNCHANGED registryVars
    /\ UNCHANGED <<geometry, program, renderer, normals>>

\* Renderer::render_to_surface: surface.get_current_texture()? returns the
\* error, otherwise the quad is drawn and the frame presented
RenderToSurface(w, outcome) ==
    [w EXCEPT !.frames = @ + 1, !.outcome = outcome, !.path = "renderer",
              !.presented = IF outcome = "Ok" THEN @ + 1 ELSE @]

\* Renderer::attach: the surface of the window
RendererAttach ==
    /\ renderer' = [renderer EXCEPT !.surface = TRUE]
    /\ op' = "attach"
    /\ arg' = 0
    /\ calls' = <<>>
    /\ UNCHANGED registryVars
    /\ UNCHANGED <<window, geometry, program, normals>>

\* A render_to_surface that does not look for the surface
RenderToSurfaceAlways(r, outcome) ==
    [r EXCEPT !.steps = @ \o <<"get_current_texture", "quad.render", "present">>,
              !.result = "Ok"]

\* Renderer::render_to_surface as the Renderer sees it: without a surface
\* nothing is done and Ok returned; with one, get_current_texture()? returns
\* the error, otherwise the quad is drawn and the frame presented
RenderToSurfaceSteps(r, outcome) ==
    IF ~r.surface THEN [r EXCEPT !.result = "Ok"]
    ELSE IF outcome = "Ok"
    THEN [r EXCEPT !.steps = @ \o <<"get_current_texture", "quad.render", "present">>,
                   !.result = "Ok"]
    ELSE [r EXCEPT !.steps = @ \o <<"get_current_texture">>, !.result = "Err"]

\* Renderer::render: render_to_buffer(..)? (which calls Scene::render and
\* returns Ok(())), then render_to_surface()?.  A panic of Scene::render
\* unwinds through both.
RendererRenderSteps(r, outcome, panics) ==
    IF panics
    THEN [r EXCEPT !.steps = <<"scene.render">>, !.result = "panic"]
    ELSE RenderToSurfaceSteps([r EXCEPT !.steps = <<"scene.render">>], outcome)

\* Renderer::render called by a frame loop
RendererRender(outcome) ==
    /\ RenderScene
    /\ renderer' = RendererRenderSteps(renderer, outcome, panicked')
    /\ UNCHANGED <<window, geometry, program, normals>>

\* App::render of the examples: Renderer::render (render_to_buffer, which
\* calls Scene::render, then render_to_surface) and log::error! on any Err.
\* App::new has attached the surface.
AppRender(outcome) ==
    /\ window.control_flow /= "Exit"
    /\ window.path \in {"none", "renderer"}
    /\ window.frames < MaxFrames
    /\ renderer.surface
    /\ RenderScene
    /\ renderer' = RendererRenderSteps(renderer, outcome, panicked')
    /\ LET w == RenderToSurface(window, outcome) IN
        window' = IF outcome = "Ok" THEN w ELSE [w EXCEPT !.logged = @ + 1]
    /\ UNCHANGED <<geometry, program, normals>>

\* The frame loop of the window, and the frame loop of an example
\* application that renders a scene through the Renderer
NextFrames ==
    \/ \E outcome \in Outcomes : RedrawRequested(outcome)
    \/ \E size \in Sizes : WindowResized(size)
    \/ CloseRequested
    \/ RendererAttach
    \/ \E outcome \in Outcomes : AppRender(outcome)

SpecFrames == Init /\ [][NextFrames]_vars

(***************************************************************************)
(* Geometry: a vertex array and its vertex buffer.  A Geometry is a record *)
(* of its vertices, its vertex_buffer (the Option as a sequence of at most *)
(* one buffer, a buffer being the contents it was created with) and        *)
(* `edited`: vertices_mut was called since the buffer was last created or  *)
(* freed.                                                                  *)
(***************************************************************************)
\* The vertex arrays of the model
VertexArrays == {<<>>, <<"a">>, <<"a", "b">>}

\* Geometry::new
GeometryNewValue(vertices) ==
    [vertices |-> vertices, vertex_buffer |-> <<>>, edited |-> FALSE]

\* Clone for Geometry
GeometryCloneValue(g) ==
    [vertices |-> g.vertices, vertex_buffer |-> <<>>, edited |-> FALSE]

\* Geometry::free
GeometryFreeValue(g) == [g EXCEPT !.vertex_buffer = <<>>, !.edited = FALSE]
GeometryFreeCalls(h, g) ==
    IF g.vertex_buffer /= <<>>
    THEN <<Event("destroy_buffer", h, "vertex", 0, "", "")>> ELSE <<>>

\* An allocate that keeps the buffer the Geometry holds already
GeometryAllocateOnce(g) ==
    IF g.vertex_buffer /= <<>> THEN [g EXCEPT !.edited = FALSE]
    ELSE [g EXCEPT !.vertex_buffer = <<g.vertices>>, !.edited = FALSE]

\* Geometry::allocate: free, then create_buffer_init from the vertices
GeometryAllocateValue(g) ==
    [GeometryFreeValue(g) EXCEPT !.vertex_buffer = <<g.vertices>>]
GeometryAllocateCalls(h, g) ==
    GeometryFreeCalls(h, g) \o <<Event("create_buffer", h, "vertex", 0, "", "")>>

\* An operation on the application's Geometry values: they become gs
GeometryStep(name, h, gs, cs) ==
    /\ geometry' = gs
    /\ op' = name
    /\ arg' = h
    /\ calls' = cs
    /\ UNCHANGED registryVars
    /\ UNCHANGED <<window, program, renderer, normals>>

GeometryNew(vertices) ==
    /\ Len(geometry) < MaxGeometries
    /\ GeometryStep("Geometry::new", Len(geometry) + 1,
                    Append(geometry, GeometryNewValue(vertices)), <<>>)

GeometryClone(h) ==
    /\ Len(geometry) < MaxGeometries
    /\ GeometryStep("Geometry::clone", Len(geometry) + 1,
                    Append(geometry, GeometryCloneValue(geometry[h])), <<>>)

GeometryAllocate(h) ==
    GeometryStep("Geometry::allocate", h,
                 [geometry EXCEPT ![h] = GeometryAllocateValue(@)],
                 GeometryAllocateCalls(h, geometry[h]))

GeometryFree(h) ==
    GeometryStep("Geometry::free", h,
                 [geometry EXCEPT ![h] = GeometryFreeValue(@)],
                 GeometryFreeCalls(h, geometry[h]))

\* Geometry::vertices_mut: the caller leaves `vertices` in the Vec
GeometryVerticesMut(h, vertices) ==
    GeometryStep("Geometry::vertices_mut", h,
                 [geometry EXCEPT ![h].vertices = vertices,
                                  ![h].edited = (@ \/ geometry[h].vertex_buffer /= <<>>)],
                 <<>>)

\* An application that builds, clones, edits, allocates and frees Geometry
NextGeometry ==
    \/ \E vertices \in VertexArrays : GeometryNew(vertices)
    \/ \E h \in DOMAIN geometry : GeometryClone(h)
    \/ \E h \in DOMAIN geometry : GeometryAllocate(h)
    \/ \E h \in DOMAIN geometry : GeometryFree(h)
    \/ \E h \in DOMAIN geometry, vertices \in VertexArrays : GeometryVerticesMut(h, vertices)

SpecGeometry == Init /\ [][NextGeometry]_vars

(***************************************************************************)
(* DebugNormals with its lines.  Positions and normals are integers on one *)
(* axis; a line end is kept in half units, so that position + normal * 0.5 *)
(* is 2 * position + normal.                                               *)
(***************************************************************************)
Vertices == {[position |-> 0, normal |-> 2], [position |-> 1, normal |-> -1]}
VertexSlices == UNION {[1..n -> Vertices] : n \in 0..MaxVertices}

\* set_vertices: one line per vertex, from the position to the position
\* plus half the normal
NormalsLines(vertices) ==
    [i \in 1..Len(vertices) |->
        <<2 * vertices[i].position, 2 * vertices[i].position + vertices[i].normal>>]

\* A set_vertices that does not flag the object
NormalsSetVerticesClean(n, vertices) ==
    [n EXCEPT !.lines = NormalsLines(vertices), !.edited = TRUE]

\* DebugNormals::set_vertices
NormalsSetVerticesValue(n, vertices) ==
    [n EXCEPT !.lines = NormalsLines(vertices), !.dirty = TRUE, !.edited = TRUE]

\* DebugNormals::free
NormalsFreeValue(n) == [n EXCEPT !.vertex_buffer = <<>>]
NormalsFreeCalls(n) ==
    IF n.vertex_buffer /= <<>>
    THEN <<Event("destroy_buffer", 0, n.vertex_buffer[1], 0, "", "")>> ELSE <<>>

\* DebugNormals::allocate: free, then create_buffer_init from the lines
NormalsAllocateValue(n) == [NormalsFreeValue(n) EXCEPT !.vertex_buffer = <<n.lines>>]
NormalsAllocateCalls(n) ==
    NormalsFreeCalls(n) \o <<Event("create_buffer", 0, n.lines, 0, "", "")>>

\* `self.lines.len() as u32 * 2`: exact in u32 for fewer than 2^31 lines
NormalsDrawCount(n) == Len(n.lines) * 2

\* DebugNormals::render: allocate when dirty, then draw when there is a
\* buffer.  The draw call carries the contents of the buffer it binds and
\* the number of vertices it draws.
NormalsRenderValue(n) ==
    [(IF n.dirty THEN NormalsAllocateValue(n) ELSE n)
        EXCEPT !.dirty = FALSE, !.edited = FALSE]
NormalsRenderCalls(n) ==
    (IF n.dirty THEN NormalsAllocateCalls(n) ELSE <<>>)
    \o (IF NormalsRenderValue(n).vertex_buffer /= <<>>
        THEN <<Event("draw", 0, NormalsRenderValue(n).vertex_buffer[1],
                     NormalsDrawCount(n), "", "")>>
        ELSE <<>>)

\* DebugNormals::mount
NormalsMountValue(n) == [NormalsAllocateValue(n) EXCEPT !.dirty = FALSE]

\* DebugNormals::unmount
NormalsUnmountValue(n) == NormalsFreeValue(n)

\* An operation on the DebugNormals: it becomes n
NormalsStep(name, n, cs) ==
    /\ normals' = n
    /\ op' = name
    /\ arg' = 0
    /\ calls' = cs
    /\ UNCHANGED registryVars
    /\ UNCHANGED <<window, geometry, program, renderer>>

NormalsSetVertices(vertices) ==
    NormalsStep("DebugNormals::set_vertices",
                NormalsSetVerticesValue(normals, vertices), <<>>)

NormalsMount ==
    NormalsStep("DebugNormals::mount", NormalsMountValue(normals),
                NormalsAllocateCalls(normals))

NormalsRender ==
    NormalsStep("DebugNormals::render", NormalsRenderValue(normals),
                NormalsRenderCalls(normals))

NormalsUnmount ==
    NormalsStep("DebugNormals::unmount", NormalsUnmountValue(normals),
                NormalsFreeCalls(normals))

\* A DebugNormals whose lines are set, and which is mounted, rendered and
\* unmounted
NextNormals ==
    \/ \E vertices \in VertexSlices : NormalsSetVertices(vertices)
    \/ NormalsMount
    \/ NormalsRender
    \/ NormalsUnmount

SpecNormals == Init /\ [][NextNormals]_vars

(***************************************************************************)
(* The texture-enabled buffer of SceneUniforms, and SimpleProgram.         *)
(***************************************************************************)
\* SceneUniforms::new: the values written to enabled_buffer, by offset
SceneEnabledBuffer == (0 :> 0) @@ (uniform_alignment :> 1)

\* SimpleProgram::compile: the values written to enabled_buffer, by offset
ProgramEnabledBuffer == (0 * uniform_alignment :> 0) @@ (1 * uniform_alignment :> 0)

\* Texture ids the application passes to a Program
ProgramTextureIDs == {0, 1, 2}

\* An operation on the SimpleProgram: it becomes p
ProgramStep(name, id, p, cs) ==
    /\ ~program.panicked
    /\ program' = p
    /\ op' = name
    /\ arg' = id
    /\ calls' = cs
    /\ UNCHANGED registryVars
    /\ UNCHANGED <<window, geometry, renderer, normals>>

\* SimpleProgram::compile
ProgramCompile ==
    ProgramStep("Program::compile", 0,
                [program EXCEPT !.state = TRUE,
                                !.enabled_buffer = ProgramEnabledBuffer,
                                !.texture_bind_groups = {},
                                !.bound = <<>>],
                <<>>)

\* SimpleProgram::add_texture (ProgramState::add_texture when compiled)
ProgramAddTexture(id) ==
    ProgramStep("Program::add_texture", id,
                IF program.state
                THEN [program EXCEPT !.texture_bind_groups = @ \cup {id}]
                ELSE program,
                <<>>)

\* ProgramState::bind_texture: the offset into the enabled buffer
ProgramBindTextureOffset(id) == IF id = 0 THEN 0 ELSE uniform_alignment

\* SimpleProgram::bind_texture (ProgramState::bind_texture when compiled)
ProgramBindTexture(id) ==
    ProgramStep("Program::bind_texture", id,
                IF ~program.state THEN program
                ELSE IF id \in program.texture_bind_groups
                THEN [program EXCEPT
                        !.bound = <<[id |-> id, off |-> ProgramBindTextureOffset(id)]>>]
                ELSE [program EXCEPT !.panicked = TRUE],
                IF program.state /\ id \in program.texture_bind_groups
                THEN <<Event("set_bind_group", id, "program",
                             ProgramBindTextureOffset(id), "", "")>>
                ELSE <<>>)

\* Textured objects drawn by the scene, and a SimpleProgram used beside it
NextProgram ==
    \/ \E tid \in TextureIDs :
          Len(returned) < MaxAdds /\ Add(NewObject("Textured", tid, "identity"))
    \/ LoadTexture("image")
    \/ ProcessTextureQueue
    \/ Render
    \/ ProgramCompile
    \/ \E id \in ProgramTextureIDs : ProgramAddTexture(id)
    \/ \E id \in ProgramTextureIDs : ProgramBindTexture(id)

SpecProgram == Init /\ [][NextProgram]_vars

\* The scene objects the repository defines
RepoObjects ==
    {NewDebugNormals(t) : t \in Transforms} \cup {NewMesh(t) : t \in Transforms}

\* The scene as an application drives it, with the repository's objects
Next ==
    \/ \E o \in RepoObjects : Len(returned) < MaxAdds /\ Add(o)
    \/ \E id \in Range(returned) \cup {NEXT_ID} : Remove(id)
    \/ \E id \in Range(returned) \cup {NEXT_ID} : SetVertices(id)
    \/ ProcessTextureQueue
    \/ Render

Spec == Init /\ [][Next]_vars

\* The objects of the frame loop: the repository's, and a textured object
\* whose texture id has no bind group until a second texture is processed
RendererObjects ==
    {NewMesh("identity"), NewDebugNormals("moved"),
     NewObject("Textured", 1, "identity")}

\* A frame loop that calls Renderer::render, in an application that adds and
\* removes objects and attaches a surface
NextRenderer ==
    \/ \E o \in RendererObjects : Len(returned) < MaxAdds /\ Add(o)
    \/ \E id \in Range(returned) \cup {NEXT_ID} : Remove(id)
    \/ ProcessTextureQueue
    \/ RendererAttach
    \/ \E outcome \in Outcomes : RendererRender(outcome)

SpecRenderer == Init /\ [][NextRenderer]_vars

\* The frame loop never stops calling Renderer::render; nothing in the
\* repository schedules the other operations
SpecFrameLoop ==
    Init /\ [][NextRenderer]_vars /\ WF_vars(\E outcome \in Outcomes : RendererRender(outcome))

\* The scene beside other Scene instances that draw ids from the same counter
NextShared ==
    \/ \E o \in {NewMesh("identity"), NewDebugNormals("moved")} :
          Len(returned) < MaxAdds /\ Add(o)
    \/ \E m \in IdMarks : AddElsewhere(m)
    \/ \E id \in Range(returned) \cup {NEXT_ID} : Remove(id)
    \/ ProcessTextureQueue
    \/ Render

SpecShared == Init /\ [][NextShared]_vars

\* The scenario of three cubes added to the first scene of a process and
\* rendered
NextCubes ==
    \/ \E t \in Transforms : Len(returned) < 3 /\ Add(NewMesh(t))
    \/ ProcessTextureQueue
    \/ Render

SpecCubes == Init /\ [][NextCubes]_vars

\* The scene with handlers that ask for an object by id and type
NextAccess ==
    \/ \E o \in {NewMesh("identity"), NewDebugNormals("identity")} :
          Len(returned) < MaxAdds /\ Add(o)
    \/ \E id \in Range(returned) \cup {NEXT_ID} : Remove(id)
    \/ \E T \in ObjectTypes, id \in Range(returned) \cup {NEXT_ID} : WithObject(T, id)
    \/ \E T \in ObjectTypes, id \in Range(returned) \cup {NEXT_ID} : WithObjectMut(T, id)
    \/ ProcessTextureQueue
    \/ Render

SpecAccess == Init /\ [][NextAccess]_vars

\* One object of each material: Basic, Textured with either texture id, Line
\* and Custom
MaterialObjects ==
    {NewObject("Basic", 0, "identity"), NewDebugNormals("identity"),
     NewObject("Custom", 0, "identity")}
    \cup {NewObject("Textured", tid, "moved") : tid \in TextureIDs}

\* The scene with objects of every material and textures loaded by the
\* application
NextMaterials ==
    \/ \E o \in MaterialObjects : Len(returned) < MaxAdds /\ Add(o)
    \/ LoadTexture("image")
    \/ \E id \in Range(returned) : Remove(id)
    \/ ProcessTextureQueue
    \/ Render

SpecMaterials == Init /\ [][NextMaterials]_vars

(***************************************************************************)
(* Claims.                                                                 *)
(***************************************************************************)
HasCall(cs, o, id) == \E i \in 1..Len(cs) : cs[i].op = o /\ cs[i].id = id

\* C1: the ids returned by add are pairwise distinct and strictly increasing
\* in call order, also across the Scene instances that share the counter:
\* every id returned so far, by this scene or another, is below the id the
\* next add returns, so a removed id is never returned again.
C1_IdsFreshAndIncreasing ==
    /\ \A i, j \in 1..Len(returned) : i < j => returned[i] < returned[j]
    /\ \A i \in 1..Len(returned) : returned[i] < NEXT_ID
    /\ issued < NEXT_ID
    /\ \A id \in resolved \cup removed : id < NEXT_ID

\* C1 witness: two adds on this scene with adds on another scene between
\* them, the first id removed and dropped by a pass before the second add.
C1_Witness ==
    /\ Len(returned) = 2
    /\ returned[2] > returned[1] + 1
    /\ returned[1] \in resolved
    /\ op = "add"

\* C2: an object that received a mount call has received exactly one unmount
\* call by the time a pass has dropped it from the object map; an object still
\* in the map has received none, and no object is ever unmounted twice.
C2_MountUnmountPaired ==
    \A id \in DOMAIN mounts :
        /\ mounts[id] <= 1
        /\ unmounts[id] <= 1
        /\ id \in DOMAIN objects => unmounts[id] = 0
        /\ (id \notin DOMAIN objects /\ mounts[id] >= 1) => unmounts[id] = 1

\* C2 witness: an object mounted by one pass, removed afterwards and
\* unmounted by a later pass while another object stays in the map.
C2_Witness ==
    \E id \in DOMAIN mounts :
        /\ id \notin DOMAIN objects
        /\ id \notin removedFresh
        /\ mounts[id] = 1
        /\ unmounts[id] = 1
        /\ DOMAIN objects /= {}

\* C3: an object added and then removed before any pass mounted it receives
\* zero mount calls and zero unmount calls.
C3_NoHooksWhenRemovedBeforeMount ==
    \A id \in removedFresh : mounts[id] = 0 /\ unmounts[id] = 0

\* The calls of the draw loop
DrawLoopOps == {"set_actor", "bind_actor", "bind_texture", "render", "draw"}
ActorOps == {"set_actor", "bind_actor"}
BufferOps == {"create_buffer", "destroy_buffer"}

\* C4: every per-object uniform slot addressed in a pass lies inside the actor
\* buffer: the index is below MAX_ACTORS and the slot ends within
\* MAX_ACTORS * alignment.
C4_SlotInsideActorBuffer ==
    \A i \in 1..Len(calls) :
        calls[i].op \in ActorOps =>
            /\ ActorIndex(calls[i].id) < MAX_ACTORS
            /\ calls[i].off + ActorUniformSize <= MAX_ACTORS * uniform_alignment

\* C5: two distinct objects drawn in a pass from the same actor buffer get
\* distinct dynamic offsets, and every offset is a multiple of the alignment.
C5_OffsetsDistinctAndAligned ==
    \A i, j \in 1..Len(calls) :
        (calls[i].op = "set_actor" /\ calls[j].op = "set_actor") =>
            /\ calls[i].off % uniform_alignment = 0
            /\ (calls[i].id /= calls[j].id /\ calls[i].buf = calls[j].buf)
                   => calls[i].off /= calls[j].off

\* C6: three objects added to a fresh registry and rendered: the three actor
\* writes go to offsets 0, alignment and 2 * alignment in the order the
\* objects were added, each carrying the transform of its own object.
C6_ThreeCubesOffsets ==
    (/\ op = "render"
     /\ Len(returned) = 3
     /\ \A k \in 1..3 : HasCall(calls, "render", returned[k]))
    => \A k \in 1..3 : \E i \in 1..Len(calls) :
           /\ calls[i].op = "set_actor"
           /\ calls[i].id = returned[k]
           /\ calls[i].off = (k - 1) * uniform_alignment
           /\ calls[i].model = objects[returned[k]].transform

\* The pass Scene::render is about to make goes past the texture check
PassesCheck == uniforms /\ Len(texture_bind_groups) > 0

ResolveBeforeDraw(cs) ==
    \A i, j \in 1..Len(cs) :
        (cs[i].op \in {"mount", "unmount"} /\ cs[j].op \in DrawLoopOps) => i < j

\* the call at position i comes after the pass has started drawing
InDrawLoop(cs, i) == \E j \in 1..(i - 1) : cs[j].op \in DrawLoopOps

C9_RemovedNeverRendered ==
    /\ \A i \in 1..Len(calls) :
         calls[i].op \in DrawLoopOps => calls[i].id \notin resolved
    /\ resolved \cap DOMAIN objects = {}

\* C9 witness: a pass has unmounted one object and rendered another.
C9_Witness ==
    /\ op = "render"
    /\ \E id \in resolved, other \in DOMAIN objects :
         /\ HasCall(calls, "unmount", id)
         /\ HasCall(calls, "render", other)

\* What remove(id) does on a present id: it inserts id into `removed` and
\* nothing else
RemoveOnlyFlags ==
    (op' = "remove" /\ arg' \in DOMAIN objects) =>
        /\ removed' = removed \cup {arg'}
        /\ objects' = objects
        /\ added' = added
        /\ calls' = <<>>
        /\ unmounts' = unmounts

C12_RemoveIdempotent ==
    [][/\ (op' = "remove" /\ (arg' \notin DOMAIN objects \/ arg' \in removed)) =>
            /\ objects' = objects
            /\ added' = added
            /\ removed' = removed
            /\ calls' = <<>>
            /\ mounts' = mounts
            /\ unmounts' = unmounts
       /\ \A id \in DOMAIN unmounts' : unmounts'[id] <= 1
      ]_vars

\* C12 witness: remove has just been called a second time on an object of
\* the map, after remove had been called on an id a pass had dropped.
C12_Witness ==
    /\ op = "remove"
    /\ again
    /\ arg \in DOMAIN objects
    /\ resolved /= {}

\* C13: with_object::<T>(id, h) and with_object_mut::<T>(id, h) run h only
\* when id is in the object map and the stored object is of type T; when id
\* is absent or the object is of another type, h is not run and no stored
\* object changes.  Neither call panics, and neither changes the keys of the
\* object map, `added`, `removed` or any object other than the one asked for.
C13_HandlerOnlyOnMatchingType ==
    [][op' \in {"with_object", "with_object_mut"} =>
        LET ran == HasCall(calls', "handler", arg') IN
        /\ ran => /\ arg' \in DOMAIN objects
                  /\ objects[arg'].type = calls'[1].buf
        /\ ~ran => objects' = objects
        /\ panicked' = panicked
        /\ added' = added
        /\ removed' = removed
        /\ DOMAIN objects' = DOMAIN objects
        /\ \A id \in DOMAIN objects \ {arg'} : objects'[id] = objects[id]
        /\ op' = "with_object" => objects' = objects
      ]_vars

\* C13 witness: with_object_mut has just been called with the id of a stored
\* object of another type than the one asked for, and the handler did not
\* run.
C13_Witness ==
    /\ op = "with_object_mut"
    /\ arg \in DOMAIN objects
    /\ calls = <<>>
    /\ mounts[arg] = 1

\* C14: add stores the object under the id it returns, inserts the id into
\* `added`, changes no other entry of the map and calls no hook: the stored
\* object holds no vertex buffer.  Every id in `added` is in the object map
\* and its object has received no mount call.
C14_AddOnlyStoresAndFlags ==
    [][/\ op' = "add" =>
            /\ arg' \notin DOMAIN objects
            /\ DOMAIN objects' = DOMAIN objects \cup {arg'}
            /\ \A id \in DOMAIN objects : objects'[id] = objects[id]
            /\ Get(objects', arg') /= <<>>
            /\ ~objects'[arg'].buffer
            /\ added' = added \cup {arg'}
            /\ removed' = removed
            /\ calls' = <<>>
       /\ \A id \in added' :
            /\ Get(objects', id) /= <<>>
            /\ mounts'[id] = 0
      ]_vars

\* C14 witness: add has just returned while the scene has texture bind groups
\* and an object mounted earlier; the new object is in the map, flagged and
\* not mounted.
C14_Witness ==
    /\ op = "add"
    /\ PassesCheck
    /\ Len(returned) = 2
    /\ mounts[returned[1]] = 1
    /\ arg \in added
    /\ Get(objects, arg) /= <<>>
    /\ mounts[arg] = 0

\* C15: in every render call that reaches the draw loop, each object of the
\* object map the loop walks receives exactly one render call, whatever its
\* material.
C15_OneRenderCallPerObject ==
    [][(op' = "render" /\ PassesCheck) =>
        \A id \in DOMAIN objects' : CountCalls(calls', "render", id) = 1]_vars

\* C16: for every object whose render is called in a pass, the calls made for
\* it are, in this order and with no call for another object between them: a
\* write of the object's transform (and, for a BasicMaterial, of the
\* material's colour) to the actor buffer at the object's dynamic offset, a
\* bind of the same buffer's bind group at the same offset, and then the
\* object's render.
C16_WriteBindRender ==
    [][op' = "render" =>
        \A k \in 1..Len(calls') :
            calls'[k].op = "render" =>
                LET id == calls'[k].id IN
                \E i, j \in 1..(k - 1) :
                    /\ i < j
                    /\ \A m \in i..k : calls'[m].id = id
                    /\ calls'[i].op = "set_actor"
                    /\ calls'[i].model = objects[id].transform
                    /\ objects[id].material = "Basic" => calls'[i].color = "material"
                    /\ calls'[i].off = DynamicOffset(ActorIndex(id))
                    /\ calls'[j].op = "bind_actor"
                    /\ calls'[j].buf = calls'[i].buf
                    /\ calls'[j].off = calls'[i].off
                    /\ \A m \in 1..Len(calls') :
                         (calls'[m].op \in ActorOps /\ calls'[m].id = id) => m \in {i, j}
      ]_vars

\* C16 witness: a pass has rendered two objects, one through the scene
\* uniforms with a texture bound and one through the debug uniforms.
C16_Witness ==
    /\ op = "render"
    /\ \E i, j, k, l \in 1..Len(calls) :
         /\ calls[i].op = "bind_actor" /\ calls[i].buf = "scene"
         /\ calls[j].op = "render" /\ calls[j].id = calls[i].id
         /\ objects[calls[i].id].material = "Textured"
         /\ calls[k].op = "bind_actor" /\ calls[k].buf = "debug"
         /\ calls[l].op = "render" /\ calls[l].id = calls[k].id
         /\ calls[i].off /= calls[k].off

\* C17: a frame whose presentation fails is handled by the kind of the
\* failure: on Lost the swap chain is created anew at the current size and the
\* loop goes on; on OutOfMemory the event loop exits; on any other error the
\* error is logged, nothing is presented and the loop goes on.
C17_FailuresHandledByKind ==
    [][window'.frames = window.frames + 1 =>
        /\ window'.outcome = "Ok" =>
                window'.presented = window.presented + 1
        /\ window'.outcome = "Lost" =>
                /\ window'.swap_chains = window.swap_chains + 1
                /\ window'.swap_chain = window.size
                /\ window'.control_flow = "Poll"
        /\ window'.outcome = "OutOfMemory" =>
                window'.control_flow = "Exit"
        /\ window'.outcome \in {"Outdated", "Timeout"} =>
                /\ window'.logged = window.logged + 1
                /\ window'.presented = window.presented
                /\ window'.swap_chains = window.swap_chains
                /\ window'.control_flow = "Poll"
      ]_vars

\* C18 as stated: whenever a Geometry holds a vertex buffer, the buffer's
\* contents are the Geometry's current vertices.
C18_BufferReflectsVertices ==
    \A h \in DOMAIN geometry :
        geometry[h].vertex_buffer /= <<>> =>
            geometry[h].vertex_buffer[1] = geometry[h].vertices

\* C18 amended: a Geometry made by new or clone holds no vertex buffer, and a
\* buffer a Geometry holds has the contents of the vertices unless
\* vertices_mut was called after the buffer was created.
C18_BufferReflectsVerticesAtAllocate ==
    [][/\ \A h \in DOMAIN geometry' :
            (geometry'[h].vertex_buffer /= <<>> /\ ~geometry'[h].edited) =>
                geometry'[h].vertex_buffer[1] = geometry'[h].vertices
       /\ Len(geometry') > Len(geometry) =>
            geometry'[Len(geometry')].vertex_buffer = <<>>
       /\ op' = "Geometry::allocate" =>
            geometry'[arg'].vertex_buffer = <<geometry[arg'].vertices>>
      ]_vars

\* C18 witness: allocate has just destroyed the buffer a Geometry held and
\* created one from its vertices, while another Geometry with other vertices
\* holds no buffer.
C18_Witness ==
    /\ op = "Geometry::allocate"
    /\ HasCall(calls, "destroy_buffer", arg)
    /\ geometry[arg].vertex_buffer = <<geometry[arg].vertices>>
    /\ geometry[arg].vertices /= <<>>
    /\ \E h \in DOMAIN geometry :
         /\ h /= arg
         /\ geometry[h].vertex_buffer = <<>>
         /\ geometry[h].vertices /= geometry[arg].vertices

\* C19: an object whose unmount hook has run holds no vertex buffer: when the
\* pass drops the object after the hook, no buffer is left in it.
C19_NoBufferAfterUnmount ==
    \A i \in 1..Len(calls) : calls[i].op = "drop" => calls[i].buf = ""

\* C20: whenever a render call gets to the camera update and the draw loop,
\* texture_bind_groups[0] exists and is the bind group of the placeholder
\* image queued by Scene::new; binding texture 0 never fails, and every object
\* drawn with a BasicMaterial (or the default material) has that bind group
\* bound before its render call.
C20_DefaultTextureBound ==
    [][(op' = "render" /\ HasCall(calls', "set_camera", 0)) =>
        /\ Len(texture_bind_groups) > 0
        /\ texture_bind_groups[1] = "pixel"
        /\ \A i \in 1..Len(calls') :
             calls'[i].op = "panic" => calls'[i].off /= 0
        /\ \A k \in 1..Len(calls') :
             (calls'[k].op = "render" /\ DrawMaterial(objects[calls'[k].id]) = "Basic") =>
                 \E i \in 1..(k - 1) :
                     /\ calls'[i].op = "bind_texture"
                     /\ calls'[i].id = calls'[k].id
                     /\ calls'[i].buf = "pixel"
                     /\ calls'[i].off = 0
      ]_vars

\* C20 witness: a pass has bound the placeholder's bind group for an object
\* with a BasicMaterial while the application has loaded no texture.
C20_Witness ==
    /\ op = "render"
    /\ loads = 0
    /\ Len(texture_bind_groups) = 1
    /\ \E i \in 1..Len(calls) :
         /\ calls[i].op = "bind_texture"
         /\ calls[i].buf = "pixel"
         /\ objects[calls[i].id].material = "Basic"
         /\ HasCall(calls, "render", calls[i].id)

\* The texture index the draw loop binds for object o
BoundTexture(o) == IF DrawMaterial(o) = "Textured" THEN o.texture_id ELSE 0

\* C21: the texture-enabled buffer holds 0 in its first slot and 1 in its
\* second, and bind_texture binds the first slot exactly when the texture id
\* is 0: the value at the bound offset is 0 for texture 0 and 1 for every other
\* texture, in SceneUniforms and in SimpleProgram alike.
C21_EnabledSlotMatchesTexture ==
    /\ \A i \in 1..Len(calls) :
         calls[i].op = "bind_texture" =>
             /\ calls[i].off \in DOMAIN SceneEnabledBuffer
             /\ SceneEnabledBuffer[calls[i].off] =
                    (IF BoundTexture(objects[calls[i].id]) = 0 THEN 0 ELSE 1)
    /\ program.bound /= <<>> =>
         /\ program.bound[1].off \in DOMAIN program.enabled_buffer
         /\ program.enabled_buffer[program.bound[1].off] =
                (IF program.bound[1].id = 0 THEN 0 ELSE 1)

\* The constructors of the shared uniforms
Constructors == {"SceneUniforms::new", "DebugUniforms::new"}

\* C22: Scene::new builds neither SceneUniforms nor DebugUniforms; a render
\* call builds each of them exactly when it is still absent, no other
\* operation builds or drops them, and once built they stay: they are built
\* by the first render call and by no later one.
C22_UniformsBuiltOnceByFirstRender ==
    [][/\ op = "new" => (~uniforms /\ ~debug_uniforms)
       /\ op' = "render" =>
            /\ CountCalls(calls', "SceneUniforms::new", 0) = (IF uniforms THEN 0 ELSE 1)
            /\ CountCalls(calls', "DebugUniforms::new", 0) = (IF debug_uniforms THEN 0 ELSE 1)
            /\ uniforms' /\ debug_uniforms'
       /\ op' /= "render" =>
            /\ \A i \in 1..Len(calls') : calls'[i].op \notin Constructors
            /\ uniforms' = uniforms
            /\ debug_uniforms' = debug_uniforms
       /\ uniforms => uniforms'
       /\ debug_uniforms => debug_uniforms'
      ]_vars

\* C22 witness: a render call after the first has run a whole pass and built
\* nothing.
C22_Witness ==
    /\ op = "render"
    /\ uniforms /\ debug_uniforms
    /\ HasCall(calls, "set_camera", 0)
    /\ \E i \in 1..Len(calls) : calls[i].op = "render"
    /\ \A i \in 1..Len(calls) : calls[i].op \notin Constructors

\* C23: a render call that gets past the texture check writes the camera
\* exactly once to the camera buffer of the scene uniforms and once to that of
\* the debug uniforms, at offset 0, after every mount and unmount call and
\* before every call of the draw loop; a render call that returns early
\* writes no camera.
C23_CameraWrittenOncePerPass ==
    [][op' = "render" =>
        IF PassesCheck
        THEN /\ \A buf \in {"scene", "debug"} :
                  Cardinality({i \in 1..Len(calls') :
                      calls'[i].op = "set_camera" /\ calls'[i].buf = buf}) = 1
             /\ \A i \in 1..Len(calls') :
                  calls'[i].op = "set_camera" =>
                      /\ calls'[i].off = 0
                      /\ \A j \in 1..Len(calls') :
                           /\ calls'[j].op \in {"mount", "unmount", "drop"} => j < i
                           /\ calls'[j].op \in DrawLoopOps => i < j
        ELSE \A i \in 1..Len(calls') : calls'[i].op /= "set_camera"
      ]_vars

\* C23 witness: a pass has mounted one object, unmounted another and drawn
\* two objects, with the camera written between.
C23_Witness ==
    /\ op = "render"
    /\ HasCall(calls, "set_camera", 0)
    /\ \E i, j \in 1..Len(calls) : calls[i].op = "mount" /\ calls[j].op = "unmount"
    /\ \E i \in 1..Len(calls) : calls[i].op = "render"

\* C24: in a render call that gets past the texture check, every object of
\* the map whose material() is None takes the Basic branch: one write of its
\* transform with the default colour to the scene actor buffer, texture 0
\* bound, and one render call; the call does not panic.
C24_NoMaterialDrawnAsBasic ==
    [][(op' = "render" /\ PassesCheck) =>
        \A id \in DOMAIN objects' :
            objects'[id].material = "None" =>
                /\ \E i, j, k \in 1..Len(calls') :
                     /\ i < j /\ j < k
                     /\ calls'[i] = SetActor("scene", id, ActorIndex(id), "default",
                                             objects'[id].transform)
                     /\ calls'[j].op = "bind_texture"
                     /\ calls'[j].id = id
                     /\ calls'[j].off = BindTextureOffset(0)
                     /\ calls'[k].op = "render"
                     /\ calls'[k].id = id
                /\ CountCalls(calls', "set_actor", id) = 1
                /\ CountCalls(calls', "render", id) = 1
                /\ ~panicked'
      ]_vars

\* C24 witness: a pass has drawn an object without a material next to an
\* object with a LineMaterial.
C24_Witness ==
    /\ op = "render"
    /\ \E id, other \in DOMAIN objects :
         /\ objects[id].material = "None"
         /\ HasCall(calls, "render", id)
         /\ \E i \in 1..Len(calls) :
              calls[i].op = "set_actor" /\ calls[i].id = id /\ calls[i].color = "default"
         /\ objects[other].material = "Line"
         /\ HasCall(calls, "render", other)

\* C25: a Renderer::render call runs the scene pass first; when it presents,
\* present is its last step, after the scene pass and the acquisition of the
\* frame, and it returns Ok; a call whose scene pass failed performs no
\* step after the scene pass; a call on a Renderer without a surface
\* performs the scene pass alone and returns Ok.
C25_SceneThenPresent ==
    [][op' = "render" =>
        LET steps == renderer'.steps
            Presents == {i \in 1..Len(steps) : steps[i] = "present"}
        IN  /\ Len(steps) >= 1
            /\ steps[1] = "scene.render"
            /\ \A i \in 2..Len(steps) : steps[i] /= "scene.render"
            /\ \A i \in Presents : i = Len(steps) /\ i > 1
            /\ Cardinality(Presents) <= 1
            /\ Presents /= {} => renderer'.result = "Ok"
            /\ (panicked' \/ renderer'.result \in {"Err", "panic"}) => Presents = {}
            /\ panicked' => steps = <<"scene.render">>
            /\ (~renderer.surface /\ ~panicked') =>
                  steps = <<"scene.render">> /\ renderer'.result = "Ok"
            /\ (renderer.surface /\ ~panicked' /\ renderer'.result = "Ok") =>
                  Presents /= {}
      ]_vars

\* C25 witness: a Renderer without a surface has rendered a scene whose pass
\* drew an object, and returned Ok without presenting.
C25_Witness ==
    /\ op = "render"
    /\ ~renderer.surface
    /\ renderer.steps = <<"scene.render">>
    /\ renderer.result = "Ok"
    /\ \E i \in 1..Len(calls) : calls[i].op = "render"

\* C26: under a frame loop that keeps calling Renderer::render, every object
\* of the map is eventually mounted unless it is flagged for removal or
\* dropped first, and every render call made while a mounted object is in
\* the map and stays there calls render on that object.
C26_EventuallyMountedThenDrawn ==
    /\ \A id \in 1..MaxAdds :
         (id \in DOMAIN objects) ~>
             \/ id \notin DOMAIN objects
             \/ id \in removed
             \/ (id \in DOMAIN mounts /\ mounts[id] > 0)
    /\ [][op' = "render" =>
            \A id \in DOMAIN objects \cap DOMAIN objects' :
                (id \in DOMAIN mounts /\ mounts[id] > 0) =>
                    HasCall(calls', "render", id)
         ]_vars

\* C27: a render call that finds no texture bind group leaves the object
\* map, `added` and `removed` as they were and calls mount, unmount and
\* render on no object.
C27_EarlyReturnKeepsPending ==
    [][(op' = "render" /\ ~PassesCheck) =>
        /\ objects' = objects
        /\ added' = added
        /\ removed' = removed
        /\ \A i \in 1..Len(calls') : calls'[i].op \notin {"mount", "unmount", "render"}
        /\ mounts' = mounts
        /\ unmounts' = unmounts
      ]_vars

\* C27 witness: a render call has returned early with one object waiting to
\* be mounted and the same or another flagged for removal.
C27_Witness ==
    /\ op = "render"
    /\ Len(texture_bind_groups) = 0
    /\ added /= {}
    /\ removed /= {}
    /\ \A id \in DOMAIN objects : mounts[id] = 0 /\ unmounts[id] = 0

\* C28: every id in `added` and every id in `removed` is a key of the object
\* map, and right after a render call that got past the texture check both
\* sets are empty.
C28_PendingIdsAreKeys ==
    /\ added \subseteq DOMAIN objects
    /\ removed \subseteq DOMAIN objects
    /\ (op = "render" /\ Len(texture_bind_groups) > 0) =>
            added = {} /\ removed = {}

\* C28 witness: after a pass that drained a non-empty `removed`, another
\* object was added and flagged for removal, so both sets are non-empty.
C28_Witness ==
    /\ op = "remove"
    /\ resolved /= {}
    /\ added /= {}
    /\ removed /= {}
    /\ \E id \in resolved : id \notin DOMAIN objects

\* C29: process_texture_queue appends the bind groups of the queued images
\* in queue order, the placeholder of Scene::new being the first bind group
\* of all, and the id add_texture returns for an image is an index at which
\* bind_texture finds the bind group of that image, the placeholder's id
\* being 0.
C29_TextureIdIsBindIndex ==
    [][(op' = "process_texture_queue" /\ uniforms) =>
        /\ texture_bind_groups' = texture_bind_groups \o texture_queue
        /\ texture_queue' = <<>>
        /\ Len(texture_bind_groups') > 0 => texture_bind_groups'[1] = "pixel"
        /\ Len(calls') = Len(texture_queue)
        /\ \A i \in 1..Len(calls') :
             /\ calls'[i].op = "add_texture"
             /\ calls'[i].buf = texture_queue[i]
             /\ ~BindTexturePanics(calls'[i].id, texture_bind_groups')
             /\ BindTexture(0, calls'[i].id, texture_bind_groups').buf = calls'[i].buf
             /\ (Len(texture_bind_groups) = 0 /\ i = 1) => calls'[i].id = 0
      ]_vars

\* C30 as stated: the render call that follows a set_vertices call destroys
\* the buffer the object holds, creates one from the new lines, then draws,
\* and clears dirty; every draw binds a buffer created from the current
\* lines and draws twice as many vertices as there are lines.
C30_NextRenderReallocates ==
    [][op' = "DebugNormals::render" =>
        /\ normals.edited =>
              /\ \E i, j \in 1..Len(calls') :
                   /\ i < j
                   /\ calls'[i].op = "create_buffer"
                   /\ calls'[i].buf = normals.lines
                   /\ calls'[j].op = "draw"
              /\ ~normals'.dirty
        /\ \A i \in 1..Len(calls') : calls'[i].op = "draw" =>
              /\ calls'[i].buf = normals'.lines
              /\ calls'[i].off = 2 * Len(normals'.lines)
      ]_vars

\* C30 amended: set_vertices sets dirty; a render call on a dirty object
\* destroys the buffer the object holds, if any, creates one from the
\* current lines, draws and clears dirty; a render call on an object that is
\* not dirty, because a mount call has rebuilt the buffer since set_vertices,
\* creates and destroys nothing and draws only if the object holds a buffer;
\* every draw binds a buffer created from the current lines and draws twice
\* as many vertices as there are lines.
C30_DirtyRenderReallocates ==
    [][/\ op' = "DebugNormals::set_vertices" => normals'.dirty
       /\ op' = "DebugNormals::render" =>
            /\ normals.dirty =>
                  /\ calls' = NormalsFreeCalls(normals)
                               \o <<Event("create_buffer", 0, normals.lines, 0, "", ""),
                                    Event("draw", 0, normals.lines,
                                          2 * Len(normals.lines), "", "")>>
                  /\ normals'.vertex_buffer = <<normals.lines>>
            /\ ~normals.dirty =>
                  /\ \A i \in 1..Len(calls') : calls'[i].op = "draw"
                  /\ Len(calls') = (IF normals.vertex_buffer = <<>> THEN 0 ELSE 1)
                  /\ normals'.vertex_buffer = normals.vertex_buffer
            /\ ~normals'.dirty
            /\ normals'.lines = normals.lines
            /\ \A i \in 1..Len(calls') : calls'[i].op = "draw" =>
                  /\ calls'[i].buf = normals'.lines
                  /\ calls'[i].off = 2 * Len(normals'.lines)
      ]_vars

\* C30 witness: a render call has replaced a buffer made from other lines by
\* one made from the current lines, which are two, and drawn four vertices.
C30_Witness ==
    /\ op = "DebugNormals::render"
    /\ Len(normals.lines) = 2
    /\ Len(calls) = 3
    /\ calls[1].op = "destroy_buffer"
    /\ calls[1].buf /= normals.lines
    /\ calls[2].op = "create_buffer"
    /\ calls[3].op = "draw"
    /\ calls[3].off = 4
    /\ ~normals.dirty

====
